---- MODULE Spec2Model ----
(***************************************************************************)
(* Cielo: the browser script that polls the server and shows the feed, the *)
(* game summary and the high score, in its three versions                  *)
(*   "cielo.js"  static/cielo.js   /feed, /summary and /highscore          *)
(*   "part_000"  unnamed/part_000  /state for feed+summary, /highscore     *)
(*   "part_001"  unnamed/part_001  /state for all three regions            *)
(* and the two tables of database/README.md.                               *)
(*                                                                         *)
(* The page runs one version of the script (variable script).  JavaScript  *)
(* runs one handler at a time to completion, so each handler and each      *)
(* success callback is one atomic action.  The server and the network are  *)
(* the environment: a request in flight is answered by the server at some  *)
(* moment (Serve), and its success callback runs at some later moment      *)
(* (the *Success actions) or never (Fail); requests do not wait for one    *)
(* another.                                                                *)
(***************************************************************************)
EXTENDS Integers, Sequences, FiniteSets, TLC

\* ------------------------------------------------------------------ bounds
MaxReq == 4        \* requests issued in one run
MaxClicks == 2     \* clicks on the new-game button in one run
MaxTime == 6000    \* the clock stops here (ms)

\* ------------------------------------------------------- program constants
Interval == 3000          \* setInterval(..., 3000)
DefaultDuration == 60     \* duration_seconds INT NOT NULL DEFAULT 60

Quantum == Interval \div 2    \* granularity of the clock (ms)

VARIABLES
  script,     \* the version of the script the page runs
  xhr,        \* [net: requests in flight, sent: url -> number issued so far]
  ok,         \* url -> number of success callbacks run so far
  failed,     \* number of requests that ended without a success callback
  game,       \* server: number of games started (the server state polled)
  dom,        \* [feed, summary, highscore]: content of the three regions
  now,        \* clock (ms since the script ran)
  nextTick,   \* when the interval timer fires next
  loaded,     \* the window load event has fired
  clicks,     \* clicks on .cielonewgame so far
  events,     \* table events: sequence of rows
  games,      \* table games: sequence of rows
  last        \* outcome of the last INSERT: [table, stmt, result]

webVars == <<script, xhr, ok, failed, game, dom, now, nextTick, loaded, clicks>>
dbVars == <<events, games, last>>
vars == <<script, xhr, ok, failed, game, dom, now, nextTick, loaded, clicks,
          events, games, last>>

Scripts == {"cielo.js", "part_000", "part_001"}
Urls == {"/state", "/feed", "/summary", "/highscore", "/newgame"}

\* ----------------------------------------------------------------- content
\* What a region shows: the part `part` of the response to request `req`,
\* rendered by the server when it had started `g` games.
Html(req, part, g) == [req |-> req, part |-> part, game |-> g]
Blank == Html(0, "blank", 0)

\* The server's answer to request id for url, computed when g games exist:
\* /state answers an object with the three fields, the others answer markup.
Response(id, url, g) ==
  IF url = "/state"
    THEN [feed |-> Html(id, "feed", g), summary |-> Html(id, "summary", g),
          highscore |-> Html(id, "highscore", g)]
    ELSE Html(id, url, g)

\* ------------------------------------------------------------------ $.ajax
Issued(x) == x.sent["/state"] + x.sent["/feed"] + x.sent["/summary"]
             + x.sent["/highscore"] + x.sent["/newgame"]

\* $.ajax({url: url, success: ...}): one more request in flight.
ajax(x, url) ==
  [net |-> x.net \cup {[id |-> Issued(x) + 1, url |-> url, st |-> "sent",
                        data |-> Blank]},
   sent |-> [x.sent EXCEPT ![url] = @ + 1]]

\* A request that ends without success: no error or complete option is
\* given to $.ajax, so nothing runs; the request is just gone.
ajax_error_retry(x, r) == ajax([x EXCEPT !.net = @ \ {r}], r.url)
ajax_error(x, r) == [x EXCEPT !.net = @ \ {r}]

\* -------------------------------------------------------------- part_001
update_state(x) == ajax(x, "/state")

state_success_partial(d, data) ==
  [d EXCEPT !.feed = data.feed, !.summary = data.summary]
state_success(d, data) ==
  [d EXCEPT !.feed = data.feed, !.summary = data.summary,
            !.highscore = data.highscore]

click_eager(x) == update_state(ajax(x, "/newgame"))
click(x) == ajax(x, "/newgame")

newgame_success(x) == update_state(x)

on_load_missing(x) == x
on_load(x) == update_state(x)

on_interval(x) == update_state(x)

\* -------------------------------------------------------- static/cielo.js
update_high_score(x) == ajax(x, "/highscore")

highscore_success(d, response) == [d EXCEPT !.highscore = response]

update_status_and_feed_one(x) == ajax(x, "/feed")
update_status_and_feed(x) == ajax(ajax(x, "/feed"), "/summary")

feed_success(d, response) == [d EXCEPT !.feed = response]
summary_success(d, response) == [d EXCEPT !.summary = response]

cj_newgame_success(x) == update_high_score(update_status_and_feed(x))

\* -------------------------------------------------------------- part_000
p0_update_status_and_feed(x) == ajax(x, "/state")

p0_state_success(d, data) ==
  [d EXCEPT !.feed = data.feed, !.summary = data.summary]

p0_newgame_success(x) == update_high_score(p0_update_status_and_feed(x))

\* ------------------------------------------------------------------ state
WebInit ==
  /\ script \in Scripts
  /\ xhr = [net |-> {}, sent |-> [u \in Urls |-> 0]]
  /\ ok = [u \in Urls |-> 0]
  /\ failed = 0
  /\ game = 0
  /\ dom = [feed |-> Blank, summary |-> Blank, highscore |-> Blank]
  /\ now = 0
  /\ nextTick = Interval
  /\ loaded = FALSE
  /\ clicks = 0

DbInit ==
  /\ events = << >>
  /\ games = << >>
  /\ last = [table |-> "none", stmt |-> << >>, result |-> "none"]

Room(n) == Issued(xhr) + n <= MaxReq

\* ------------------------------------------------------------ environment
\* Time passes while no timer callback is due.
Elapse ==
  /\ now < nextTick
  /\ now + Quantum <= MaxTime
  /\ now' = now + Quantum
  /\ UNCHANGED <<script, xhr, ok, failed, game, dom, nextTick, loaded, clicks>>
  /\ UNCHANGED dbVars

\* The server answers a request; /newgame starts a game first.
Serve ==
  \E r \in xhr.net :
    /\ r.st = "sent"
    /\ game' = IF r.url = "/newgame" THEN game + 1 ELSE game
    /\ xhr' = [xhr EXCEPT !.net = (@ \ {r}) \cup
                 {[r EXCEPT !.st = "answered",
                            !.data = Response(r.id, r.url, game')]}]
    /\ UNCHANGED <<script, ok, failed, dom, now, nextTick, loaded, clicks>>
    /\ UNCHANGED dbVars

\* A request fails (network error, timeout, HTTP error status), before or
\* after the server handled it.
Fail ==
  \E r \in xhr.net :
    /\ xhr' = ajax_error(xhr, r)
    /\ failed' = failed + 1
    /\ UNCHANGED <<script, ok, game, dom, now, nextTick, loaded, clicks>>
    /\ UNCHANGED dbVars

\* The success callback of answered request r runs: the request is done,
\* the regions become d and the requests in flight become x.net.
Succeed(r, d, x) ==
  /\ r.st = "answered"
  /\ Issued(x) <= MaxReq
  /\ ok' = [ok EXCEPT ![r.url] = @ + 1]
  /\ dom' = d
  /\ xhr' = [x EXCEPT !.net = @ \ {r}]
  /\ UNCHANGED <<script, failed, game, now, nextTick, loaded, clicks>>
  /\ UNCHANGED dbVars

\* ------------------------------------------------- handlers, all versions
\* $(".cielonewgame").click(...): the same handler in the three versions.
Click ==
  /\ clicks < MaxClicks
  /\ Room(1)
  /\ clicks' = clicks + 1
  /\ xhr' = click(xhr)
  /\ UNCHANGED <<script, ok, failed, game, dom, now, nextTick, loaded>>
  /\ UNCHANGED dbVars

\* ------------------------------------------------------ handlers, part_001
Load ==
  /\ script = "part_001"
  /\ ~loaded
  /\ loaded' = TRUE
  /\ xhr' = on_load(xhr)
  /\ Issued(xhr') <= MaxReq
  /\ UNCHANGED <<script, ok, failed, game, dom, now, nextTick, clicks>>
  /\ UNCHANGED dbVars

Tick ==
  /\ script = "part_001"
  /\ now >= nextTick
  /\ Room(1)
  /\ nextTick' = nextTick + Interval
  /\ xhr' = on_interval(xhr)
  /\ UNCHANGED <<script, ok, failed, game, dom, now, loaded, clicks>>
  /\ UNCHANGED dbVars

NewGameSuccess ==
  /\ script = "part_001"
  /\ \E r \in xhr.net : r.url = "/newgame" /\ Succeed(r, dom, newgame_success(xhr))

StateSuccess ==
  /\ script = "part_001"
  /\ \E r \in xhr.net : r.url = "/state" /\ Succeed(r, state_success(dom, r.data), xhr)

\* ------------------------------------------------------ handlers, cielo.js
\* The window load event: the script registers no handler for it.
CjLoad ==
  /\ script = "cielo.js"
  /\ ~loaded
  /\ loaded' = TRUE
  /\ UNCHANGED <<script, xhr, ok, failed, game, dom, now, nextTick, clicks>>
  /\ UNCHANGED dbVars

CjTick ==
  /\ script = "cielo.js"
  /\ now >= nextTick
  /\ nextTick' = nextTick + Interval
  /\ xhr' = update_status_and_feed(xhr)
  /\ Issued(xhr') <= MaxReq
  /\ UNCHANGED <<script, ok, failed, game, dom, now, loaded, clicks>>
  /\ UNCHANGED dbVars

CjNewGameSuccess ==
  /\ script = "cielo.js"
  /\ \E r \in xhr.net : r.url = "/newgame" /\ Succeed(r, dom, cj_newgame_success(xhr))

CjFeedSuccess ==
  /\ script = "cielo.js"
  /\ \E r \in xhr.net : r.url = "/feed" /\ Succeed(r, feed_success(dom, r.data), xhr)

CjSummarySuccess ==
  /\ script = "cielo.js"
  /\ \E r \in xhr.net : r.url = "/summary" /\ Succeed(r, summary_success(dom, r.data), xhr)

CjHighScoreSuccess ==
  /\ script = "cielo.js"
  /\ \E r \in xhr.net : r.url = "/highscore" /\ Succeed(r, highscore_success(dom, r.data), xhr)

\* ------------------------------------------------------ handlers, part_000
P0Load ==
  /\ script = "part_000"
  /\ ~loaded
  /\ loaded' = TRUE
  /\ UNCHANGED <<script, xhr, ok, failed, game, dom, now, nextTick, clicks>>
  /\ UNCHANGED dbVars

P0Tick ==
  /\ script = "part_000"
  /\ now >= nextTick
  /\ Room(1)
  /\ nextTick' = nextTick + Interval
  /\ xhr' = p0_update_status_and_feed(xhr)
  /\ UNCHANGED <<script, ok, failed, game, dom, now, loaded, clicks>>
  /\ UNCHANGED dbVars

P0NewGameSuccess ==
  /\ script = "part_000"
  /\ \E r \in xhr.net : r.url = "/newgame" /\ Succeed(r, dom, p0_newgame_success(xhr))

P0StateSuccess ==
  /\ script = "part_000"
  /\ \E r \in xhr.net : r.url = "/state" /\ Succeed(r, p0_state_success(dom, r.data), xhr)

P0HighScoreSuccess ==
  /\ script = "part_000"
  /\ \E r \in xhr.net : r.url = "/highscore" /\ Succeed(r, highscore_success(dom, r.data), xhr)

Next ==
  \/ Elapse \/ Serve \/ Fail \/ Click
  \/ Load \/ Tick \/ NewGameSuccess \/ StateSuccess
  \/ CjLoad \/ CjTick \/ CjNewGameSuccess \/ CjFeedSuccess
  \/ CjSummarySuccess \/ CjHighScoreSuccess
  \/ P0Load \/ P0Tick \/ P0NewGameSuccess \/ P0StateSuccess
  \/ P0HighScoreSuccess

Init == WebInit /\ DbInit
Spec == Init /\ [][Next]_vars

\* ================================================================ database
MaxRows == 2       \* rows in the two tables together

\* SQL values are written as in the statement: NULL or a literal.
NULL == "NULL"
NoDefault == "no DEFAULT clause"
Col(notnull, default) == [notnull |-> notnull, default |-> default]

\* CREATE TABLE events (kind ... NOT NULL, t_ref INT NOT NULL, t_end FLOAT)
events_table ==
  [kind |-> Col(TRUE, NoDefault), t_ref |-> Col(TRUE, NoDefault),
   t_end |-> Col(FALSE, NoDefault)]

\* CREATE TABLE games (t_start INT NOT NULL, duration_seconds INT NOT NULL
\* DEFAULT 60, user VARCHAR(50), end_score INT)
games_table_nullable_duration ==
  [t_start |-> Col(TRUE, NoDefault),
   duration_seconds |-> Col(FALSE, NoDefault),
   user |-> Col(FALSE, NoDefault), end_score |-> Col(FALSE, NoDefault)]
games_table ==
  [t_start |-> Col(TRUE, NoDefault),
   duration_seconds |-> Col(TRUE, ToString(DefaultDuration)),
   user |-> Col(FALSE, NoDefault), end_score |-> Col(FALSE, NoDefault)]

\* INSERT INTO t (columns) VALUES (...): a literal or NULL for each column
\* the statement names; a column it leaves out is absent from the statement.
Given(stmt, cols) == [c \in cols |-> stmt[c]]

events_statements ==
  {Given(s, cols) :
     s \in [kind : {"beam", NULL}, t_ref : {"1", NULL}, t_end : {"2.5", NULL}],
     cols \in SUBSET {"kind", "t_ref", "t_end"}}

games_statements ==
  {Given(s, cols) :
     s \in [t_start : {"1", NULL}, duration_seconds : {"30", NULL},
            user : {"ann", NULL}, end_score : {"7", NULL}],
     cols \in SUBSET {"t_start", "duration_seconds", "user", "end_score"}}

\* The row an INSERT builds: the value given, else the column's DEFAULT,
\* else NULL (the implicit default of a column that has none).
RowOf(table, stmt) ==
  [c \in DOMAIN table |->
     IF c \in DOMAIN stmt THEN stmt[c]
     ELSE IF table[c].default # NoDefault THEN table[c].default
     ELSE NULL]

\* MariaDB as installed (strict SQL mode, the default since 10.2.4) refuses
\* a row with NULL in a NOT NULL column, whether the NULL was given or the
\* column was left out and has no default.
Accepted(table, stmt) ==
  \A c \in DOMAIN table : table[c].notnull => RowOf(table, stmt)[c] # NULL

RowCount == Len(events) + Len(games)

InsertEvents ==
  \E stmt \in events_statements :
    /\ IF Accepted(events_table, stmt)
         THEN /\ RowCount < MaxRows
              /\ events' = Append(events, RowOf(events_table, stmt))
              /\ last' = [table |-> "events", stmt |-> stmt, result |-> "ok"]
         ELSE /\ events' = events
              /\ last' = [table |-> "events", stmt |-> stmt, result |-> "error"]
    /\ UNCHANGED games
    /\ UNCHANGED webVars

InsertGames ==
  \E stmt \in games_statements :
    /\ IF Accepted(games_table, stmt)
         THEN /\ RowCount < MaxRows
              /\ games' = Append(games, RowOf(games_table, stmt))
              /\ last' = [table |-> "games", stmt |-> stmt, result |-> "ok"]
         ELSE /\ games' = games
              /\ last' = [table |-> "games", stmt |-> stmt, result |-> "error"]
    /\ UNCHANGED events
    /\ UNCHANGED webVars

\* The tables on their own, beside a page that does nothing meanwhile.
DbNext == InsertEvents \/ InsertGames
InitDb == Init /\ script = "part_001"
SpecDb == InitDb /\ [][DbNext]_vars

\* ================================================================== claims
Ticks == (nextTick \div Interval) - 1      \* timer callbacks run so far
Regions == {"feed", "summary", "highscore"}
Sent(u) == xhr.sent[u]

\* C1: with part_001 the three regions always show the three fields of one
\* and the same /state response, or all three are still as the page had them.
C1_RegionsFromOneResponse ==
  script = "part_001" =>
    \/ \A g \in Regions : dom[g] = Blank
    \/ \E id \in 1..MaxReq, n \in 0..MaxClicks : dom = Response(id, "/state", n)

\* C1 witness: a second /state response has replaced the first on the page.
C1_Witness ==
  /\ script = "part_001"
  /\ ok["/state"] >= 2
  /\ dom.highscore.req >= 2

\* C2: with part_001 a click sends exactly one /newgame request and no
\* /state request; a /state request that is not sent by the timer or the load
\* event is sent in the step in which a /newgame success callback runs, and
\* that step sends exactly one /state request and nothing else.
C2_ClickThenRefresh ==
  [][script = "part_001" =>
       /\ clicks' # clicks =>
            /\ clicks' = clicks + 1
            /\ xhr'.sent = [xhr.sent EXCEPT !["/newgame"] = @ + 1]
            /\ ok' = ok
       /\ xhr'.sent["/newgame"] # Sent("/newgame") => clicks' = clicks + 1
       /\ ok'["/newgame"] # ok["/newgame"] =>
            /\ ok'["/newgame"] = ok["/newgame"] + 1
            /\ ok'["/newgame"] <= Sent("/newgame")
            /\ xhr'.sent = [xhr.sent EXCEPT !["/state"] = @ + 1]
       /\ (xhr'.sent["/state"] # Sent("/state") /\ nextTick' = nextTick
             /\ loaded' = loaded) =>
            ok'["/newgame"] = ok["/newgame"] + 1]_vars

\* C2 witness: a click's /newgame request succeeded and its refresh was sent.
C2_Witness ==
  /\ script = "part_001"
  /\ clicks = 2
  /\ ok["/newgame"] = 1
  /\ Sent("/state") = 1

\* C3: with part_001 the /state requests sent are one for the load event,
\* one for each timer tick and one for each successful /newgame response, and
\* no others; a tick comes no sooner than 3000 ms after the one before.
C3_StateRequests ==
  script = "part_001" =>
    /\ Sent("/state") = (IF loaded THEN 1 ELSE 0) + Ticks + ok["/newgame"]
    /\ Ticks * Interval <= now

\* C3 witness: the page loaded, the timer fired and a new game was started.
C3_Witness ==
  /\ script = "part_001"
  /\ loaded
  /\ Ticks >= 1
  /\ ok["/newgame"] >= 1

\* C4: with cielo.js and part_000 a /highscore request is sent when the page
\* loads (and after a new-game click).
C4_HighScoreOnLoad ==
  (script \in {"cielo.js", "part_000"} /\ loaded) => Sent("/highscore") >= 1

\* C5: with cielo.js a timer tick sends exactly one /feed and one /summary
\* request and writes nothing; a /feed success writes the feed region with
\* that response and leaves the other two regions alone, a /summary success
\* the summary region likewise; neither sends a request.
C5_TimerFeedAndSummary ==
  [][script = "cielo.js" =>
       /\ nextTick' # nextTick =>
            /\ xhr'.sent = [xhr.sent EXCEPT !["/feed"] = @ + 1,
                                            !["/summary"] = @ + 1]
            /\ dom' = dom
       /\ ok'["/feed"] # ok["/feed"] =>
            /\ \E r \in xhr.net : r.url = "/feed" /\ dom'.feed = r.data
            /\ dom'.summary = dom.summary
            /\ dom'.highscore = dom.highscore
            /\ xhr'.sent = xhr.sent
       /\ ok'["/summary"] # ok["/summary"] =>
            /\ \E r \in xhr.net : r.url = "/summary" /\ dom'.summary = r.data
            /\ dom'.feed = dom.feed
            /\ dom'.highscore = dom.highscore
            /\ xhr'.sent = xhr.sent]_vars

\* C5 witness: after a tick both responses arrived; no click was made, so
\* the high-score region is as the page had it.
C5_Witness ==
  /\ script = "cielo.js"
  /\ Ticks >= 1
  /\ dom.feed.part = "/feed"
  /\ dom.summary.part = "/summary"
  /\ dom.highscore = Blank

\* C6: in every version, when a request fails the regions keep their
\* content, no request is sent (no retry, no follow-up) and no success
\* callback runs; the failed request alone leaves the network.
C6_FailureChangesNothing ==
  [][failed' # failed =>
       /\ dom' = dom
       /\ xhr'.sent = xhr.sent
       /\ ok' = ok
       /\ xhr'.net \subseteq xhr.net
       /\ Cardinality(xhr.net \ xhr'.net) = 1]_vars

\* C6 witness: the only request sent was a /newgame request, it failed
\* after the server had started the game, and no refresh followed.
C6_Witness ==
  /\ clicks = 1
  /\ Sent("/newgame") = 1
  /\ failed = 1
  /\ game = 1
  /\ xhr.net = {}
  /\ Issued(xhr) = 1

\* C8: with part_001 the page never goes back: once the regions show the
\* response to a request, no response to an earlier request overwrites them.
C8_NeverOlder ==
  [][script = "part_001" =>
       \A g \in Regions : dom'[g].req >= dom[g].req]_vars

\* C7: every events row has kind and t_ref, every games row has t_start and
\* duration_seconds; a games row inserted without a duration has duration 60;
\* an insert that leaves out or nulls a NOT NULL column without default is
\* refused, and a refused insert leaves both tables as they were; an events
\* insert is accepted or refused on its own columns alone, whatever games
\* holds.
TableOf(name) == IF name = "events" THEN events_table ELSE games_table
C7_RowsInv ==
  /\ \A i \in 1..Len(events) :
       events[i].kind # NULL /\ events[i].t_ref # NULL
  /\ \A i \in 1..Len(games) :
       games[i].t_start # NULL /\ games[i].duration_seconds # NULL
  /\ (last.table = "games" /\ last.result = "ok"
        /\ "duration_seconds" \notin DOMAIN last.stmt) =>
       games[Len(games)].duration_seconds = "60"
  /\ last.table # "none" =>
       ((\E c \in {"kind", "t_ref", "t_start"} \cap DOMAIN TableOf(last.table) :
           c \notin DOMAIN last.stmt \/ last.stmt[c] = NULL)
        => last.result = "error")
  /\ last.table = "events" =>
       (last.result = "ok" <=>
          \A c \in {"kind", "t_ref"} :
            c \in DOMAIN last.stmt /\ last.stmt[c] # NULL)
C7_SchemaEnforcement ==
  /\ []C7_RowsInv
  /\ [][last'.result = "error" => (events' = events /\ games' = games)]_vars

\* C7 witness: a games row inserted with only t_start stands with duration
\* 60 and NULL user and end_score, an events row stands with NULL t_end,
\* and the last insert was refused.
C7_Witness ==
  /\ Len(games) = 1
  /\ games[1] = [t_start |-> "1", duration_seconds |-> "60", user |-> NULL,
                 end_score |-> NULL]
  /\ Len(events) = 1
  /\ events[1].t_end = NULL
  /\ last.result = "error"
====
